---- MODULE Spec2Model ----
(***************************************************************************)
(* Model of node-app/src/schema-builder.ts: the model normalizer           *)
(* (createField, createChildRelationShip, createEntity) and the schema     *)
(* builder (SchemaBuilder.buildSchema, #buildTypes, #buildQuery,           *)
(* #buildField).  String tags are kept exactly as the source spells them.  *)
(***************************************************************************)
EXTENDS Integers, Sequences, FiniteSets, TLC

VARIABLES
    raw,          \* the describe results handed to the normalizer
    graph,        \* graph.entities: the normalized entities, in order
    graphQLTypes, \* SchemaBuilder.graphQLTypes: gqlName -> GraphQLObjectType
    typeFields,   \* per entity object type: its field thunk, resolved or not
    queryFields,  \* the Query type's field thunk, resolved or not
    pc,           \* "raw": records loaded; "idle": graph built, builder
                  \* constructed; "types": #buildTypes returned; "schema":
                  \* inside new GraphQLSchema; "done": buildSchema returned;
                  \* "failed": buildSchema threw
    builds,       \* number of buildSchema calls started on this builder
    prev          \* outcome of the previous buildSchema call on this builder

vars == <<raw, graph, graphQLTypes, typeFields, queryFields, pc, builds, prev>>

(***************************************************************************)
(* Bounds of the model.                                                    *)
(***************************************************************************)
MaxEntities == 2
MaxBuilds == 2
MaxRawFields == 2
MaxRawChildren == 2

(***************************************************************************)
(* JavaScript values.                                                      *)
(***************************************************************************)
\* JSON null, as the describe result carries it for a missing relationship name.
Null == "null"
\* The value `undefined` where the source holds a string (a missed table lookup,
\* an index past the end of an array).
UndefinedTag == "undefined"
\* The value `undefined` where the source holds an object (a bare `return;`).
UNDEFINED == [undefined |-> TRUE]

Falsy(s) == s = Null \/ s = UndefinedTag \/ s = ""

EmptyMap == [k \in {} |-> k]

MapPut(m, k, v) == [x \in (DOMAIN m) \cup {k} |-> IF x = k THEN v ELSE m[x]]

SeqsUpTo(S, n) == UNION {[1..k -> S] : k \in 0..n}

Last(S) == CHOOSE i \in S : \A j \in S : j <= i

First(S) == CHOOSE i \in S : \A j \in S : i <= j

(***************************************************************************)
(* utils/string.js camelCase, on the names the model draws: the leading    *)
(* letter is lower-cased.                                                  *)
(***************************************************************************)
camelCase(s) ==
    CASE s = "Name" -> "name"
      [] s = "Description" -> "description"
      [] s = "OwnerId" -> "ownerId"
      [] s = "Owner" -> "owner"
      [] s = "AccountId" -> "accountId"
      [] s = "Account" -> "account"
      [] s = "ReportsToId" -> "reportsToId"
      [] s = "ReportsTo" -> "reportsTo"
      [] s = "DelegatedApproverId" -> "delegatedApproverId"
      [] s = "WhoId" -> "whoId"
      [] s = "Who" -> "who"
      [] s = "Contacts" -> "contacts"
      [] s = "Cases" -> "cases"
      [] OTHER -> s

(***************************************************************************)
(* entity.ts: the normalizer.                                              *)
(***************************************************************************)
\* The source type tags that key SOBJECT_FIELD_SCALAR_TYPE_MAPPING.
SOBJECT_FIELD_SCALAR_TYPE_MAPPING ==
    [ string |-> "String", boolean |-> "Boolean", int |-> "Int",
      double |-> "Float", date |-> "Date", datetime |-> "DateTime",
      base64 |-> "Base64", id |-> "Id", currency |-> "Currency",
      textarea |-> "TextArea", percent |-> "Percent", phone |-> "Phone",
      url |-> "URL", email |-> "Email", combobox |-> "ComboBox",
      picklist |-> "Picklist", multipicklist |-> "MultiPicklist",
      anyType |-> " AnyType", address |-> "Address", location |-> "Location" ]

\* FieldType.REFERENCE and FieldType.POLYMORPHIC_REFERENCE.
REFERENCE == "Reference"
POLYMORPHIC_REFERENCE == "PolymorphicReference"

\* The `config` object createField copies out of the raw field.
FieldConfigOf(f) ==
    [ nillable |-> f.nillable, createable |-> f.createable,
      updateable |-> f.updateable, filterable |-> f.filterable,
      groupable |-> f.groupable, sortable |-> f.sortable,
      aggregatable |-> f.aggregatable ]

\* A plausible slip: the split decided by the number of declared targets as well.
createField_SplitByTargets(f) ==
    IF f.type = "reference"
    THEN IF Falsy(f.relationshipName)
         THEN UNDEFINED
         ELSE IF f.polymorphicForeignKey \/ Len(f.referenceTo) > 1
              THEN [ type |-> POLYMORPHIC_REFERENCE,
                     sfdcReferencedEntitiesNames |-> f.referenceTo,
                     sfdcName |-> f.name,
                     gqlName |-> camelCase(f.relationshipName),
                     sfdcRelationshipName |-> f.relationshipName,
                     config |-> FieldConfigOf(f) ]
              ELSE [ type |-> REFERENCE,
                     sfdcReferencedEntityName |->
                         IF Len(f.referenceTo) >= 1 THEN f.referenceTo[1]
                                                    ELSE UndefinedTag,
                     sfdcName |-> f.name,
                     gqlName |-> camelCase(f.relationshipName),
                     sfdcRelationshipName |-> f.relationshipName,
                     config |-> FieldConfigOf(f) ]
    ELSE [ type |-> IF f.type \in DOMAIN SOBJECT_FIELD_SCALAR_TYPE_MAPPING
                    THEN SOBJECT_FIELD_SCALAR_TYPE_MAPPING[f.type]
                    ELSE UndefinedTag,
           sfdcName |-> f.name,
           gqlName |-> camelCase(f.name),
           config |-> FieldConfigOf(f) ]

createField(f) ==
    IF f.type = "reference"
    THEN IF Falsy(f.relationshipName)
         THEN UNDEFINED
         ELSE IF f.polymorphicForeignKey
              THEN [ type |-> POLYMORPHIC_REFERENCE,
                     sfdcReferencedEntitiesNames |-> f.referenceTo,
                     sfdcName |-> f.name,
                     gqlName |-> camelCase(f.relationshipName),
                     sfdcRelationshipName |-> f.relationshipName,
                     config |-> FieldConfigOf(f) ]
              ELSE [ type |-> REFERENCE,
                     sfdcReferencedEntityName |->
                         IF Len(f.referenceTo) >= 1 THEN f.referenceTo[1]
                                                    ELSE UndefinedTag,
                     sfdcName |-> f.name,
                     gqlName |-> camelCase(f.relationshipName),
                     sfdcRelationshipName |-> f.relationshipName,
                     config |-> FieldConfigOf(f) ]
    ELSE [ type |-> IF f.type \in DOMAIN SOBJECT_FIELD_SCALAR_TYPE_MAPPING
                    THEN SOBJECT_FIELD_SCALAR_TYPE_MAPPING[f.type]
                    ELSE UndefinedTag,
           sfdcName |-> f.name,
           gqlName |-> camelCase(f.name),
           config |-> FieldConfigOf(f) ]

createChildRelationShip(r) ==
    IF r.relationshipName = Null
    THEN UNDEFINED
    ELSE [ sfdcName |-> r.relationshipName,
           gqlName |-> camelCase(r.relationshipName),
           entity |-> r.childSObject ]

\* array.filter(x => x !== undefined)
FilterDefined(xs) == SelectSeq(xs, LAMBDA y : y # UNDEFINED)

\* A plausible slip: a reference without a relationship name kept as an
\* id-shaped field instead of dropped.
createEntity_KeepsNameless(s) ==
    [ sfdcName |-> s.name,
      gqlName |-> s.name,
      config |-> [ createable |-> s.createable, updateable |-> s.updateable,
                   deletable |-> s.deletable, queryable |-> s.queryable ],
      fields |->
          [ i \in 1..Len(s.fields) |->
              IF createField(s.fields[i]) = UNDEFINED
              THEN [ type |-> "Id", sfdcName |-> s.fields[i].name,
                     gqlName |-> camelCase(s.fields[i].name),
                     config |-> FieldConfigOf(s.fields[i]) ]
              ELSE createField(s.fields[i]) ],
      childRelationships |->
          FilterDefined([ i \in 1..Len(s.childRelationships) |->
                            createChildRelationShip(s.childRelationships[i]) ]) ]

createEntity(s) ==
    [ sfdcName |-> s.name,
      gqlName |-> s.name,
      config |-> [ createable |-> s.createable, updateable |-> s.updateable,
                   deletable |-> s.deletable, queryable |-> s.queryable ],
      fields |-> FilterDefined([i \in 1..Len(s.fields) |-> createField(s.fields[i])]),
      childRelationships |->
          FilterDefined([ i \in 1..Len(s.childRelationships) |->
                            createChildRelationShip(s.childRelationships[i]) ]) ]

isScalarField(field) == field.type # REFERENCE /\ field.type # POLYMORPHIC_REFERENCE

isReferenceField(field) == field.type = REFERENCE

isPolymorphicReference(field) == field.type = POLYMORPHIC_REFERENCE

(***************************************************************************)
(* graph.ts (Graph): the entities in order, and the lookup by source name. *)
(***************************************************************************)
entityBySfdcName(entities, name) ==
    IF \E i \in 1..Len(entities) : entities[i].sfdcName = name
    THEN entities[First({i \in 1..Len(entities) : entities[i].sfdcName = name})]
    ELSE UNDEFINED

(***************************************************************************)
(* The graphql library's type constructors, as values.                     *)
(***************************************************************************)
\* The value `undefined` where the source holds a GraphQL type.
UndefinedType == [kind |-> "undefined"]

GraphQLScalarType(name) == [kind |-> "Scalar", name |-> name]

GraphQLID == GraphQLScalarType("ID")
GraphQLString == GraphQLScalarType("String")
GraphQLBoolean == GraphQLScalarType("Boolean")
GraphQLInt == GraphQLScalarType("Int")
GraphQLFloat == GraphQLScalarType("Float")

GraphQLList(ofType) == [kind |-> "List", ofType |-> ofType]

\* What a throwing call yields: the exception, carried as a value.
Throw(message) == [throws |-> message]

IsThrow(v) == "throws" \in DOMAIN v

\* new GraphQLNonNull(t): the library refuses a type that is not a nullable type.
GraphQLNonNull(ofType) ==
    IF ofType = UndefinedType
    THEN Throw("Expected undefined to be a GraphQL nullable type.")
    ELSE [kind |-> "NonNull", ofType |-> ofType]

\* new GraphQLObjectType({ name, fields: thunk }): the object built by call
\* number `build` of buildSchema for the entity at position `entity`.
GraphQLObjectType(name, build, entity) ==
    [kind |-> "Object", name |-> name, build |-> build, entity |-> entity]

\* A field thunk not yet called by the library.
Unresolved == [resolved |-> FALSE]

BUILTIN_SCALAR_TYPES ==
    [ id |-> GraphQLID, string |-> GraphQLString, boolean |-> GraphQLBoolean,
      int |-> GraphQLInt, double |-> GraphQLFloat,
      date |-> GraphQLScalarType("Date"),
      datetime |-> GraphQLScalarType("DateTime"),
      base64 |-> GraphQLScalarType("Base64"),
      currency |-> GraphQLScalarType("Currency"),
      textarea |-> GraphQLScalarType("TextArea"),
      percent |-> GraphQLScalarType("Percent"),
      phone |-> GraphQLScalarType("Phone"),
      url |-> GraphQLScalarType("URL"),
      email |-> GraphQLScalarType("Email"),
      combobox |-> GraphQLScalarType("Combobox"),
      anyType |-> GraphQLScalarType("AnyType"),
      picklist |-> GraphQLString,
      multipicklist |-> GraphQLList(GraphQLString) ]

\* The scalar case labels of the switch in #buildField.
ScalarCases ==
    { "id", "string", "boolean", "int", "double", "date", "datetime", "base64",
      "currency", "textarea", "percent", "phone", "url", "email", "combobox",
      "anyType", "picklist", "multipicklist" }

\* Map.get
MapGet(m, k) == IF k \in DOMAIN m THEN m[k] ELSE UndefinedType

(***************************************************************************)
(* SchemaBuilder.                                                          *)
(***************************************************************************)
\* The `type` the switch of #buildField leaves behind, before wrapping.
ResolveFieldType(entities, types, field) ==
    IF field.type \in ScalarCases
    THEN BUILTIN_SCALAR_TYPES[field.type]
    ELSE IF field.type = "reference"
    THEN IF "referenceTo" \notin DOMAIN field
         THEN Throw("Cannot read properties of undefined (reading 'length')")
         ELSE IF Len(field.referenceTo) = 1
                 /\ entityBySfdcName(entities, field.referenceTo[1]) # UNDEFINED
              THEN MapGet(types, entityBySfdcName(entities, field.referenceTo[1]).gqlName)
              ELSE GraphQLID
    ELSE UndefinedType

\* #buildField: the field config { type }, or the exception it throws.
buildField(entities, types, field) ==
    LET type == ResolveFieldType(entities, types, field)
    IN  IF IsThrow(type)
        THEN type
        ELSE IF ~field.config.nillable
        THEN IF IsThrow(GraphQLNonNull(type))
             THEN GraphQLNonNull(type)
             ELSE [type |-> GraphQLNonNull(type)]
        ELSE [type |-> type]

\* The `fields` thunk of one entity's object type: Object.fromEntries over the
\* entity's fields in order (a repeated key keeps its last value).
FieldsThunk(entities, types, entity) ==
    LET fields == entity.fields
        configs == [j \in 1..Len(fields) |-> buildField(entities, types, fields[j])]
        thrown == {j \in 1..Len(fields) : IsThrow(configs[j])}
    IN  IF thrown # {}
        THEN configs[First(thrown)]
        ELSE [ resolved |-> TRUE,
               fields |->
                   [ n \in {fields[j].gqlName : j \in 1..Len(fields)} |->
                       configs[Last({j \in 1..Len(fields) : fields[j].gqlName = n})] ] ]

\* A plausible slip: the first entry of a name kept, later ones ignored.
buildTypes_FirstWins(old, entities, build) ==
    [ n \in {entities[i].gqlName : i \in 1..Len(entities)} |->
        GraphQLObjectType(n, build,
            First({i \in 1..Len(entities) : entities[i].gqlName = n})) ]

\* A plausible slip: the registry kept across builds, a name already registered
\* not built again.
buildTypes_Cached(old, entities, build) ==
    [ n \in {entities[i].gqlName : i \in 1..Len(entities)} |->
        IF n \in DOMAIN old
        THEN old[n]
        ELSE GraphQLObjectType(n, build,
                 Last({i \in 1..Len(entities) : entities[i].gqlName = n})) ]

\* #buildTypes: one object type per entity, then new Map(entries.map(entry =>
\* [entry.name, entry])), where a repeated key keeps its last value.  `old` is
\* the registry the call replaces.
buildTypes(old, entities, build) ==
    [ n \in {entities[i].gqlName : i \in 1..Len(entities)} |->
        GraphQLObjectType(n, build,
            Last({i \in 1..Len(entities) : entities[i].gqlName = n})) ]

\* The two operations #buildQuery writes for one entity.
ByIdQuery(type) == [type |-> type, args |-> [id |-> [type |-> GraphQLID]]]

ListQuery(type) ==
    [ type |-> GraphQLList(type),
      args |-> [ limit |-> [type |-> GraphQLNonNull(GraphQLInt)],
                 offset |-> [type |-> GraphQLInt] ] ]

RECURSIVE buildQuery_NoGate(_, _, _)
\* A plausible slip: the queryable check left out.
buildQuery_NoGate(entities, types, k) ==
    IF k = 0
    THEN EmptyMap
    ELSE LET queries == buildQuery_NoGate(entities, types, k - 1)
             entity == entities[k]
             gqlEntityType == MapGet(types, entity.gqlName)
         IN  MapPut(MapPut(queries, entity.gqlName \o "_by_id", ByIdQuery(gqlEntityType)),
                    entity.gqlName, ListQuery(gqlEntityType))

RECURSIVE buildQuery(_, _, _)
\* The `fields` thunk of the Query type: `queries` after the loop of #buildQuery
\* has gone through the first k entities.
buildQuery(entities, types, k) ==
    IF k = 0
    THEN EmptyMap
    ELSE LET queries == buildQuery(entities, types, k - 1)
             entity == entities[k]
             gqlEntityType == MapGet(types, entity.gqlName)
         IN  IF ~entity.config.queryable
             THEN queries
             ELSE MapPut(MapPut(queries, entity.gqlName \o "_by_id",
                                ByIdQuery(gqlEntityType)),
                         entity.gqlName, ListQuery(gqlEntityType))

\* The entities whose object type the schema holds: the registry's values.
Registered == {graphQLTypes[n].entity : n \in DOMAIN graphQLTypes}

IsResolved(thunk) == "resolved" \in DOMAIN thunk /\ thunk.resolved

(***************************************************************************)
(* Inputs.                                                                 *)
(***************************************************************************)
\* One SObjectField of a describe result.  The capability flags other than
\* nillable are copied through unread; they are held fixed.
RawField(name, type, nillable, relationshipName, referenceTo, polymorphicForeignKey) ==
    [ name |-> name, type |-> type, nillable |-> nillable,
      createable |-> TRUE, updateable |-> TRUE, filterable |-> TRUE,
      groupable |-> FALSE, sortable |-> TRUE, aggregatable |-> FALSE,
      relationshipName |-> relationshipName, referenceTo |-> referenceTo,
      polymorphicForeignKey |-> polymorphicForeignKey ]

RawChild(relationshipName, childSObject) ==
    [relationshipName |-> relationshipName, childSObject |-> childSObject]

RawSObject(name, queryable, fields, childRelationships) ==
    [ name |-> name, createable |-> TRUE, updateable |-> TRUE,
      deletable |-> FALSE, queryable |-> queryable,
      fields |-> fields, childRelationships |-> childRelationships ]

\* A source type tag outside the table ("time" is a field type of the remote
\* describe call that SOBJECT_FIELD_SCALAR_TYPE_MAPPING does not list).
UnsupportedTags == {"time"}

\* Every shape of a single raw field: each tag, and each way a reference field
\* declares its relationship name, its targets and its polymorphic marker.
FullRawFields ==
    { RawField("Name", t, n, Null, <<>>, FALSE) :
        t \in (DOMAIN SOBJECT_FIELD_SCALAR_TYPE_MAPPING) \cup UnsupportedTags,
        n \in BOOLEAN }
    \cup
    { RawField("OwnerId", "reference", n, r, to, p) :
        n \in BOOLEAN, r \in {Null, "Owner"},
        to \in {<<>>, <<"User">>, <<"Group", "User">>}, p \in BOOLEAN }

\* The fields that records of several fields are drawn from.
RawFieldCatalogue ==
    { RawField("Name", "string", FALSE, Null, <<>>, FALSE),
      RawField("Description", "textarea", TRUE, Null, <<>>, FALSE),
      RawField("OwnerId", "reference", FALSE, "Owner", <<"User">>, FALSE),
      RawField("DelegatedApproverId", "reference", TRUE, Null, <<"User">>, FALSE),
      RawField("WhoId", "reference", TRUE, "Who", <<"Contact", "Lead">>, TRUE) }

RawChildCatalogue ==
    { RawChild(Null, "Contact"), RawChild("Contacts", "Contact"),
      RawChild("Cases", "Case") }

NormalizerRecords ==
    { RawSObject("Account", q, <<f>>, <<>>) : q \in BOOLEAN, f \in FullRawFields }
    \cup
    { RawSObject("Account", q, fs, cs) :
        q \in BOOLEAN,
        fs \in SeqsUpTo(RawFieldCatalogue, MaxRawFields),
        cs \in SeqsUpTo(RawChildCatalogue, MaxRawChildren) }

\* Entity names of the builder's graphs.  No name is another name followed by
\* "_by_id".
EntityNames == {"Account", "Contact"}

\* The field lists the builder's graphs draw each record's fields from.
BuilderFieldLists ==
    { <<>>,
      <<RawField("Name", "string", FALSE, Null, <<>>, FALSE)>>,
      <<RawField("Description", "textarea", TRUE, Null, <<>>, FALSE)>>,
      <<RawField("AccountId", "reference", TRUE, "Account", <<"Account">>, FALSE)>>,
      <<RawField("ReportsToId", "reference", TRUE, "ReportsTo", <<"Contact">>, FALSE)>>,
      <<RawField("Description", "textarea", TRUE, Null, <<>>, FALSE),
        RawField("OwnerId", "reference", TRUE, "Owner", <<"Group", "User">>, TRUE)>> }

BuilderRecords ==
    { RawSObject(n, q, fs, <<>>) :
        n \in EntityNames, q \in BOOLEAN, fs \in BuilderFieldLists }

NoPrev == [pc |-> "none"]

(***************************************************************************)
(* The state machine.                                                      *)
(***************************************************************************)
Start(records) ==
    /\ raw = records
    /\ graph = <<>>
    /\ graphQLTypes = EmptyMap
    /\ typeFields = EmptyMap
    /\ queryFields = Unresolved
    /\ pc = "raw"
    /\ builds = 0
    /\ prev = NoPrev

Init == \E records \in SeqsUpTo(BuilderRecords, MaxEntities) : Start(records)

InitNormalizer == \E record \in NormalizerRecords : Start(<<record>>)

\* createEntity on every record, in order; new SchemaBuilder(graph).
Normalize ==
    /\ pc = "raw"
    /\ graph' = [i \in 1..Len(raw) |-> createEntity(raw[i])]
    /\ pc' = "idle"
    /\ UNCHANGED <<raw, graphQLTypes, typeFields, queryFields, builds, prev>>

\* buildSchema is called; #buildTypes runs to its end.
BuildTypes ==
    /\ pc \in {"idle", "done", "failed"}
    /\ builds < MaxBuilds
    /\ builds' = builds + 1
    /\ prev' = IF pc = "idle"
               THEN NoPrev
               ELSE [ pc |-> pc, graphQLTypes |-> graphQLTypes,
                      typeFields |-> typeFields, queryFields |-> queryFields ]
    /\ graphQLTypes' = buildTypes(graphQLTypes, graph, builds + 1)
    /\ typeFields' = [i \in 1..Len(graph) |-> Unresolved]
    /\ queryFields' = Unresolved
    /\ pc' = "types"
    /\ UNCHANGED <<raw, graph>>

\* #buildQuery builds the Query type around its thunk; new GraphQLSchema begins.
BuildQuery ==
    /\ pc = "types"
    /\ pc' = "schema"
    /\ UNCHANGED <<raw, graph, graphQLTypes, typeFields, queryFields, builds, prev>>

\* The library calls the field thunk of one object type of the schema.
ResolveFields(i) ==
    /\ pc = "schema"
    /\ i \in Registered
    /\ typeFields[i] = Unresolved
    /\ LET result == FieldsThunk(graph, graphQLTypes, graph[i])
       IN  /\ typeFields' = [typeFields EXCEPT ![i] = result]
           /\ pc' = IF IsThrow(result) THEN "failed" ELSE pc
    /\ UNCHANGED <<raw, graph, graphQLTypes, queryFields, builds, prev>>

\* The library calls the field thunk of the Query type.
ResolveQuery ==
    /\ pc = "schema"
    /\ queryFields = Unresolved
    /\ queryFields' = [resolved |-> TRUE,
                       fields |-> buildQuery(graph, graphQLTypes, Len(graph))]
    /\ UNCHANGED <<raw, graph, graphQLTypes, typeFields, pc, builds, prev>>

\* new GraphQLSchema returns, and buildSchema with it.
SchemaDone ==
    /\ pc = "schema"
    /\ queryFields # Unresolved
    /\ \A i \in Registered : typeFields[i] # Unresolved
    /\ pc' = "done"
    /\ UNCHANGED <<raw, graph, graphQLTypes, typeFields, queryFields, builds, prev>>

Next ==
    \/ Normalize
    \/ BuildTypes
    \/ BuildQuery
    \/ \E i \in 1..Len(graph) : ResolveFields(i)
    \/ ResolveQuery
    \/ SchemaDone

Spec == Init /\ [][Next]_vars

NextNormalizer == Normalize

SpecNormalizer == InitNormalizer /\ [][NextNormalizer]_vars

(***************************************************************************)
(* Vocabulary of the properties.                                           *)
(***************************************************************************)
Entities == 1..Len(graph)

EntityGqlNames == {graph[i].gqlName : i \in Entities}

UniqueNames == \A i, j \in Entities : graph[i].gqlName = graph[j].gqlName => i = j

QueryableNames == {graph[i].gqlName : i \in {j \in Entities : graph[j].config.queryable}}

BuildStarted == pc \in {"types", "schema", "done", "failed"}

\* An emitted type without its non-null wrapper.
Unwrapped(type) == IF type.kind = "NonNull" THEN type.ofType ELSE type

\* The type emitted for field number j of entity i, once i's thunk has returned.
Emitted(i, j) == typeFields[i].fields[graph[i].fields[j].gqlName].type

\* The entities whose field thunk has returned a field map.
ResolvedEntities == {i \in DOMAIN typeFields : IsResolved(typeFields[i])}

\* A type with the identity of the object types left out: its shape.
RECURSIVE Shape(_)
Shape(type) ==
    CASE type.kind = "Object" -> [kind |-> "Object", name |-> type.name]
      [] type.kind \in {"List", "NonNull"} ->
             [kind |-> type.kind, ofType |-> Shape(type.ofType)]
      [] OTHER -> type

FieldsShape(thunk) == [n \in DOMAIN thunk.fields |-> Shape(thunk.fields[n].type)]

QueryShape(thunk) ==
    [ n \in DOMAIN thunk.fields |->
        [ type |-> Shape(thunk.fields[n].type),
          args |-> [a \in DOMAIN thunk.fields[n].args |->
                        Shape(thunk.fields[n].args[a].type)] ] ]

\* The object types a type mentions.
RECURSIVE ObjectsOf(_)
ObjectsOf(type) ==
    CASE type.kind = "Object" -> {type}
      [] type.kind \in {"List", "NonNull"} -> ObjectsOf(type.ofType)
      [] OTHER -> {}

\* The raw fields createEntity is said to keep: all but the reference fields
\* without a relationship name.
KeptRawFields(record) ==
    SelectSeq(record.fields,
              LAMBDA f : ~(f.type = "reference" /\ f.relationshipName = Null))

KeptRawChildren(record) ==
    SelectSeq(record.childRelationships, LAMBDA r : r.relationshipName # Null)

(***************************************************************************)
(* C1.  Query gating.                                                      *)
(***************************************************************************)
\* C1: once the Query type's fields are computed, its operations are exactly
\* `<gqlName>_by_id` and `<gqlName>` for the queryable entities and nothing for
\* the others; _by_id returns the entity's output type, nullable, with the one
\* argument id: ID; the list operation returns a list of that type with
\* limit: Int! and offset: Int.
C1_QueryGating ==
    IsResolved(queryFields) =>
        LET q == queryFields.fields
        IN  /\ DOMAIN q = QueryableNames \cup {n \o "_by_id" : n \in QueryableNames}
            /\ \A i \in Entities :
                   (\A j \in Entities : graph[j].gqlName = graph[i].gqlName
                                            => ~graph[j].config.queryable)
                   => /\ graph[i].gqlName \notin DOMAIN q
                      /\ (graph[i].gqlName \o "_by_id") \notin DOMAIN q
            /\ \A i \in Entities :
                   graph[i].config.queryable =>
                       LET n == graph[i].gqlName
                           byId == q[n \o "_by_id"]
                           list == q[n]
                       IN  /\ byId.type = graphQLTypes[n]
                           /\ byId.type.kind = "Object"
                           /\ byId.type.name = n
                           /\ UniqueNames => byId.type.entity = i
                           /\ DOMAIN byId.args = {"id"}
                           /\ byId.args.id.type = [kind |-> "Scalar", name |-> "ID"]
                           /\ list.type = [kind |-> "List", ofType |-> graphQLTypes[n]]
                           /\ DOMAIN list.args = {"limit", "offset"}
                           /\ list.args.limit.type =
                                  [ kind |-> "NonNull",
                                    ofType |-> [kind |-> "Scalar", name |-> "Int"] ]
                           /\ list.args.offset.type = [kind |-> "Scalar", name |-> "Int"]

\* A build that returned, over a queryable and a non-queryable entity.
C1_Witness ==
    /\ pc = "done"
    /\ \E i, j \in Entities :
           /\ graph[i].config.queryable
           /\ ~graph[j].config.queryable
           /\ graph[i].gqlName # graph[j].gqlName

(***************************************************************************)
(* C2.  Reference resolution.                                              *)
(***************************************************************************)
\* The type C2 expects for a reference field of the graph, before wrapping.
C2_Expected(field) ==
    IF /\ field.type = REFERENCE
       /\ field.sfdcReferencedEntityName # UndefinedTag
       /\ \E k \in Entities : graph[k].sfdcName = field.sfdcReferencedEntityName
    THEN graphQLTypes[entityBySfdcName(graph, field.sfdcReferencedEntityName).gqlName]
    ELSE [kind |-> "Scalar", name |-> "ID"]

\* C2: every reference field of the graph is emitted, before wrapping, as its
\* single target's registered output type when that target is in the graph, and
\* as ID otherwise (polymorphic, or target absent); the build does not fail on it.
C2_ReferenceResolution ==
    \A i \in DOMAIN typeFields :
        /\ IsThrow(typeFields[i]) =>
               \A j \in 1..Len(graph[i].fields) : isScalarField(graph[i].fields[j])
        /\ IsResolved(typeFields[i]) =>
               \A j \in 1..Len(graph[i].fields) :
                   ~isScalarField(graph[i].fields[j]) =>
                       Unwrapped(Emitted(i, j)) = C2_Expected(graph[i].fields[j])

(***************************************************************************)
(* C3.  Nullability wrapping.                                              *)
(***************************************************************************)
\* C3: #buildField emits a type for every field, non-null exactly when the
\* field's nillable is false, the wrapper put around a defined type.
C3_NullabilityWrapping ==
    \A i \in DOMAIN typeFields :
        /\ ~IsThrow(typeFields[i])
        /\ IsResolved(typeFields[i]) =>
               \A j \in 1..Len(graph[i].fields) :
                   /\ (Emitted(i, j).kind = "NonNull")
                          <=> ~graph[i].fields[j].config.nillable
                   /\ Emitted(i, j).kind = "NonNull"
                          => Emitted(i, j).ofType # UndefinedType

(***************************************************************************)
(* C4.  Deferred resolution.                                               *)
(***************************************************************************)
\* No field thunk has run before every entity's name is registered by the
\* build in progress.
C4_Ordering ==
    (\E i \in DOMAIN typeFields : typeFields[i] # Unresolved) =>
        /\ pc \in {"schema", "done", "failed"}
        /\ \A n \in EntityGqlNames :
               n \in DOMAIN graphQLTypes /\ graphQLTypes[n].build = builds

\* C4: no field list is computed before every entity's output type is
\* registered; and two entities that each hold a single-target reference to
\* the other both resolve that reference to the other's registered output
\* type, never to an undefined one.
C4_DeferredResolution ==
    /\ C4_Ordering
    /\ \A a, b \in ResolvedEntities :
           \A j \in 1..Len(graph[a].fields) :
               LET field == graph[a].fields[j]
               IN  ( /\ a # b
                     /\ UniqueNames
                     /\ field.type = REFERENCE
                     /\ field.sfdcReferencedEntityName = graph[b].sfdcName
                     /\ \E k \in 1..Len(graph[b].fields) :
                            /\ graph[b].fields[k].type = REFERENCE
                            /\ graph[b].fields[k].sfdcReferencedEntityName
                                   = graph[a].sfdcName )
                   => /\ Unwrapped(Emitted(a, j)) # UndefinedType
                      /\ Unwrapped(Emitted(a, j)) = graphQLTypes[graph[b].gqlName]

(***************************************************************************)
(* C5.  Totality of the kind mapping.                                      *)
(***************************************************************************)
\* C5: a raw field with a tag of the table is normalized to a field with a
\* defined kind; a raw field with a tag outside the table is rejected, and no
\* field of the entity has an undefined kind.
C5_TotalKindMapping ==
    pc = "idle" =>
        \A i \in Entities :
            /\ \A j \in 1..Len(graph[i].fields) :
                   graph[i].fields[j].type # UndefinedTag
            /\ \A k \in 1..Len(raw[i].fields) :
                   raw[i].fields[k].type \in UnsupportedTags =>
                       \A j \in 1..Len(graph[i].fields) :
                           graph[i].fields[j].sfdcName # raw[i].fields[k].name

(***************************************************************************)
(* C6.  Dropped fields and ordering.                                       *)
(***************************************************************************)
\* C6: the entity's fields are the raw fields in their order without the
\* reference fields that have no relationship name, and its child
\* relationships the raw ones in their order without those that have no
\* relationship name.
C6_DroppedAndOrdered ==
    pc = "idle" =>
        \A i \in Entities :
            LET keptFields == KeptRawFields(raw[i])
                keptChildren == KeptRawChildren(raw[i])
            IN  /\ Len(graph[i].fields) = Len(keptFields)
                /\ \A j \in 1..Len(keptFields) :
                       graph[i].fields[j].sfdcName = keptFields[j].name
                /\ Len(graph[i].childRelationships) = Len(keptChildren)
                /\ \A j \in 1..Len(keptChildren) :
                       /\ graph[i].childRelationships[j].sfdcName
                              = keptChildren[j].relationshipName
                       /\ graph[i].childRelationships[j].entity
                              = keptChildren[j].childSObject

\* A record normalized whose first field is a reference without a relationship
\* name, followed by a field that is kept, and whose first child relationship
\* has no name and is followed by one that has.
C6_Witness ==
    /\ pc = "idle"
    /\ Len(raw[1].fields) = 2
    /\ raw[1].fields[1].type = "reference"
    /\ raw[1].fields[1].relationshipName = Null
    /\ raw[1].fields[2].relationshipName # Null
    /\ Len(graph[1].fields) = 1
    /\ Len(raw[1].childRelationships) = 2
    /\ raw[1].childRelationships[1].relationshipName = Null
    /\ Len(graph[1].childRelationships) = 1

(***************************************************************************)
(* C7.  Idempotence.                                                       *)
(***************************************************************************)
\* The object types the schema of the build in progress mentions.
MentionedObjects ==
    UNION { UNION {ObjectsOf(typeFields[i].fields[n].type) :
                       n \in DOMAIN typeFields[i].fields} :
                i \in ResolvedEntities }
    \cup
    (IF IsResolved(queryFields)
     THEN UNION {ObjectsOf(queryFields.fields[n].type) : n \in DOMAIN queryFields.fields}
     ELSE {})

\* C7: a second buildSchema on the same builder ends as the first did, and when
\* both return, the two schemas have the same type names, the same field names
\* and field type shapes per type and the same operation signatures, and the
\* second schema mentions only object types made by the second build.
C7_Idempotent ==
    (pc \in {"done", "failed"} /\ prev.pc \in {"done", "failed"}) =>
        /\ pc = prev.pc
        /\ pc = "done" =>
               /\ DOMAIN graphQLTypes = DOMAIN prev.graphQLTypes
               /\ \A n \in DOMAIN graphQLTypes :
                      FieldsShape(typeFields[graphQLTypes[n].entity])
                          = FieldsShape(prev.typeFields[prev.graphQLTypes[n].entity])
               /\ QueryShape(queryFields) = QueryShape(prev.queryFields)
               /\ \A n \in DOMAIN graphQLTypes : graphQLTypes[n].build = builds
               /\ \A type \in MentionedObjects : type = graphQLTypes[type.name]

\* Two builds that returned, over two entities, one with a field and one
\* queryable.
C7_Witness ==
    /\ pc = "done"
    /\ prev.pc = "done"
    /\ builds = 2
    /\ Len(graph) = 2
    /\ \E i \in Entities : Len(graph[i].fields) > 0
    /\ \E i \in Entities : graph[i].config.queryable

(***************************************************************************)
(* C8.  Scalar kind resolution.                                            *)
(***************************************************************************)
\* The output type C8 names for a scalar kind of the normalizer.
C8_Claimed(kind) ==
    CASE kind = "String" -> [kind |-> "Scalar", name |-> "String"]
      [] kind = "Boolean" -> [kind |-> "Scalar", name |-> "Boolean"]
      [] kind = "Int" -> [kind |-> "Scalar", name |-> "Int"]
      [] kind = "Float" -> [kind |-> "Scalar", name |-> "Float"]
      [] kind = "Id" -> [kind |-> "Scalar", name |-> "ID"]
      [] kind = "Date" -> [kind |-> "Scalar", name |-> "Date"]
      [] kind = "DateTime" -> [kind |-> "Scalar", name |-> "DateTime"]
      [] kind = "Base64" -> [kind |-> "Scalar", name |-> "Base64"]
      [] kind = "Currency" -> [kind |-> "Scalar", name |-> "Currency"]
      [] kind = "TextArea" -> [kind |-> "Scalar", name |-> "TextArea"]
      [] kind = "Percent" -> [kind |-> "Scalar", name |-> "Percent"]
      [] kind = "Phone" -> [kind |-> "Scalar", name |-> "Phone"]
      [] kind = "URL" -> [kind |-> "Scalar", name |-> "URL"]
      [] kind = "Email" -> [kind |-> "Scalar", name |-> "Email"]
      [] kind = " AnyType" -> [kind |-> "Scalar", name |-> "AnyType"]
      [] kind = "Picklist" -> [kind |-> "Scalar", name |-> "String"]
      [] kind = "ComboBox" -> [kind |-> "Scalar", name |-> "String"]
      [] kind = "MultiPicklist" ->
             [kind |-> "List", ofType |-> [kind |-> "Scalar", name |-> "String"]]
      [] OTHER -> UndefinedType

\* C8: every scalar field the normalizer produced is emitted with a defined
\* output type, the one the fixed table gives its kind.
C8_ScalarResolution ==
    \A i \in ResolvedEntities :
        \A j \in 1..Len(graph[i].fields) :
            LET field == graph[i].fields[j]
            IN  (isScalarField(field) /\ field.type # UndefinedTag) =>
                    /\ Unwrapped(Emitted(i, j)) # UndefinedType
                    /\ C8_Claimed(field.type) # UndefinedType
                           => Unwrapped(Emitted(i, j)) = C8_Claimed(field.type)

(***************************************************************************)
(* C9.  The type registry under repeated names.                            *)
(***************************************************************************)
\* C9 as stated: the registry holds, for each name, the output type of the
\* first entity of that name.
C9_FirstWriterWins ==
    BuildStarted =>
        /\ DOMAIN graphQLTypes = EntityGqlNames
        /\ \A n \in DOMAIN graphQLTypes :
               graphQLTypes[n].entity = First({i \in Entities : graph[i].gqlName = n})

\* C9 as amended: the registry holds one output type per distinct name, that of
\* the last entity of the name in graph order, and the operations of that name
\* return it.
C9_LastWriterWins ==
    BuildStarted =>
        /\ DOMAIN graphQLTypes = EntityGqlNames
        /\ \A n \in DOMAIN graphQLTypes :
               /\ graphQLTypes[n].name = n
               /\ graphQLTypes[n].build = builds
               /\ graphQLTypes[n].entity = Last({i \in Entities : graph[i].gqlName = n})
        /\ IsResolved(queryFields) =>
               \A n \in QueryableNames :
                   LET last == Last({i \in Entities : graph[i].gqlName = n})
                   IN  /\ queryFields.fields[n \o "_by_id"].type.entity = last
                       /\ queryFields.fields[n].type.ofType.entity = last

\* A build that returned over two queryable entities of one name.
C9_Witness ==
    /\ pc = "done"
    /\ Len(graph) >= 2
    /\ graph[1].gqlName = graph[2].gqlName
    /\ graph[1].config.queryable
    /\ graph[1].fields # graph[2].fields
    /\ graphQLTypes[graph[1].gqlName].entity # 1

(***************************************************************************)
(* C10.  Single and polymorphic references.                                *)
(***************************************************************************)
\* What C10 says of the fields either way: a reference variant, named by the
\* camel-cased relationship name and not by the raw field name.
C10_Common(f, g) ==
    /\ g.type \in {REFERENCE, POLYMORPHIC_REFERENCE}
    /\ g.gqlName = camelCase(f.relationshipName)
    /\ g.gqlName # camelCase(f.name)
    /\ g.sfdcRelationshipName = f.relationshipName
    /\ g.type = POLYMORPHIC_REFERENCE => g.sfdcReferencedEntitiesNames = f.referenceTo

\* C10 as stated: a reference field with a relationship name becomes
\* polymorphic when it declares more than one target or carries the
\* polymorphic marker, and a single reference with its one target otherwise.
C10_SplitByTargetsOrMarker ==
    pc = "idle" =>
        \A i \in Entities :
            LET kept == KeptRawFields(raw[i])
            IN  \A j \in 1..Len(kept) :
                    kept[j].type = "reference" =>
                        LET f == kept[j]
                            g == graph[i].fields[j]
                        IN  /\ C10_Common(f, g)
                            /\ (g.type = POLYMORPHIC_REFERENCE)
                                   <=> (Len(f.referenceTo) > 1 \/ f.polymorphicForeignKey)
                            /\ (g.type = REFERENCE /\ Len(f.referenceTo) = 1)
                                   => g.sfdcReferencedEntityName = f.referenceTo[1]

\* C10 as amended: the field is polymorphic exactly when the record carries the
\* polymorphic marker, whatever the number of targets; a single reference
\* carries the first declared target, or undefined when none is declared.
C10_SplitByMarker ==
    pc = "idle" =>
        \A i \in Entities :
            LET kept == KeptRawFields(raw[i])
            IN  /\ Len(graph[i].fields) = Len(kept)
                /\ \A j \in 1..Len(kept) :
                       kept[j].type = "reference" =>
                           LET f == kept[j]
                               g == graph[i].fields[j]
                           IN  /\ C10_Common(f, g)
                               /\ (g.type = POLYMORPHIC_REFERENCE)
                                      <=> f.polymorphicForeignKey
                               /\ g.type = REFERENCE =>
                                      g.sfdcReferencedEntityName =
                                          IF Len(f.referenceTo) >= 1
                                          THEN f.referenceTo[1]
                                          ELSE UndefinedTag

\* A reference field with a relationship name and two targets but no
\* polymorphic marker, normalized.
C10_Witness ==
    /\ pc = "idle"
    /\ Len(raw[1].fields) = 1
    /\ raw[1].fields[1].type = "reference"
    /\ raw[1].fields[1].relationshipName # Null
    /\ Len(raw[1].fields[1].referenceTo) = 2
    /\ ~raw[1].fields[1].polymorphicForeignKey
    /\ Len(graph[1].fields) = 1
    /\ graph[1].fields[1].type = REFERENCE

====
